---- MODULE Spec2Model ----
(***************************************************************************)
(* Model of the VC job-hunt / dealflow tracker backend:                    *)
(*   - the scrape-and-ingest pipeline (services/scraping.py,               *)
(*     services/dealflow_scraping.py),                                     *)
(*   - the streak state machine (services/dashboard_service.py),           *)
(*   - the one-application-per-parent create path (api/routes).            *)
(* Storage is the committed content of the database tables.  A coroutine   *)
(* gives up control only at an await, so one action is the code between    *)
(* two awaits of one handler.                                              *)
(***************************************************************************)
EXTENDS Integers, Sequences, FiniteSets, Bags, TLC

\* ------------------------------------------------------------------ bounds
MaxCands == 2
MaxRows == 2
MaxInvocations == 1
MaxTime == 1
MaxBatches == 2
MaxDay == 4
MaxRequests == 3
MaxStatsRows == 3
MaxPipelineRows == 11
MaxCurrent == 12
MaxContactRows == 1
MaxContacts == 2

\* ------------------------------------------------------------- vocabulary
NoKey == "None"
Keys == {"a", "b"}
Runs == {1, 2}
None == <<>>
Some(x) == <<x>>

JobVariants == {"job", "firms"}
LoggedVariants == {"job", "firms", "dealflow"}
BatchVariants == {"accelerators", "sectors"}
Variants == LoggedVariants \cup BatchVariants

\* A candidate mapping returned by the search collaborator: its natural key
\* (absent or empty = NoKey) and whether the remaining fields pass the
\* pydantic schema (JobCreate / StartupCreate).
Candidates == [key : Keys \cup {NoKey}, ok : BOOLEAN]

RECURSIVE SeqsUpTo(_, _)
SeqsUpTo(S, n) ==
    IF n = 0 THEN {<<>>}
    ELSE LET shorter == SeqsUpTo(S, n - 1)
         IN  shorter \cup {Append(s, x) : s \in {t \in shorter : Len(t) = n - 1}, x \in S}

CandLists == SeqsUpTo(Candidates, MaxCands)

VARIABLES
    jobs,        \* table jobs: sequence of rows [id, key, by]
    startups,    \* table startups: sequence of rows [id, key, by]
    logs,        \* table scraping_logs
    run,         \* per coroutine slot: the locals of a scrape invocation
    now,         \* datetime.utcnow()
    invocations, \* number of scrape invocations started so far
    user_settings, \* table user_settings: sequence of rows
    today,       \* date.today(), as a day number
    history,     \* per activity type: the days on which update_streak ran,
                 \* the day of the latest call, whether the call dates
                 \* have been non-decreasing so far
    callsToday,  \* per activity type: calls since today last changed (0, 1, 2+)
    applications, \* per kind: table applications / dealflow_applications
    req,         \* per request slot: the locals of a create request
    requests,    \* number of create requests started so far
    appRows,     \* table applications as the statistics read it: a bag of
                 \* rows [status, applied_date]
    dealRows,    \* table dealflow_applications as the statistics read it:
                 \* a bag of rows [status, created]
    response,    \* the body of the latest response of the stats handlers
    sess,        \* per request slot: the locals of a request that uses the
                 \* settings row
    entry,       \* the latest request to a scrape entry point and its outcome
    contactRows, \* table dealflow_applications as log_contact reads it: a
                 \* sequence of rows, the id being the position
    contactResp  \* the status code of the latest contact request

scrapeVars == <<jobs, startups, logs, run, now, invocations>>
streakVars == <<user_settings, today, history, callsToday>>
appVars == <<applications, req, requests>>
statsVars == <<appRows, dealRows, response>>
settingsVars == <<sess>>
limitVars == <<entry>>
contactVars == <<contactRows, contactResp>>
lateVars == <<statsVars, settingsVars, limitVars, contactVars>>
vars == <<scrapeVars, streakVars, appVars, lateVars>>

\* ----------------------------------------------------------------- tables
KeysOf(table) == {table[i].key : i \in DOMAIN table} \ {NoKey}

\* Variant: the existence query matches nothing.
Matching_Nothing(table, key) == {}

\* select(...).where(column == key): the matching rows.
Matching(table, key) == {i \in DOMAIN table : table[i].key = key}

\* Variant: the result is taken to be empty.
ScalarOneOrNone_AlwaysNone(rows) == "none"

\* Result.scalar_one_or_none(): "none", "one", or MultipleResultsFound.
ScalarOneOrNone(rows) ==
    IF rows = {} THEN "none"
    ELSE IF Cardinality(rows) = 1 THEN "one"
    ELSE "raise"

\* db.add(row); await db.commit(): the row becomes visible to every session.
InsertRow(table, key, by) ==
    Append(table, [id |-> Len(table) + 1, key |-> key, by |-> by])

\* ScrapingLog(source=..., status="started", started_at=...)
NewLog(source, t) ==
    [source |-> source, status |-> "started",
     jobs_found |-> None, jobs_new |-> None, jobs_updated |-> None,
     error_message |-> None, started_at |-> t,
     completed_at |-> None, duration_seconds |-> None]

NoLog == [source |-> "none", status |-> "none",
          jobs_found |-> None, jobs_new |-> None, jobs_updated |-> None,
          error_message |-> None, started_at |-> 0,
          completed_at |-> None, duration_seconds |-> None]

\* Variant: a column without default keeps NULL.
ColumnDefault_Null(v, d) == v

\* Column(Integer, default=0): applied at INSERT to an attribute never set.
ColumnDefault(v, d) == IF v = None THEN Some(d) ELSE v

\* db.add(scraping_log); await db.commit()
InsertLog(table, obj, inv) ==
    Append(table,
        [id |-> Len(table) + 1, inv |-> inv,
         source |-> obj.source, status |-> obj.status,
         jobs_found |-> ColumnDefault(obj.jobs_found, 0),
         jobs_new |-> ColumnDefault(obj.jobs_new, 0),
         jobs_updated |-> ColumnDefault(obj.jobs_updated, 0),
         error_message |-> obj.error_message,
         started_at |-> obj.started_at,
         completed_at |-> obj.completed_at,
         duration_seconds |-> obj.duration_seconds])

\* ------------------------------------------------------------- run locals
NoResult == [status |-> "none", found |-> 0, new |-> 0, updated |-> 0,
             duplicates_removed |-> 0, duration_seconds |-> 0]

IdleRun ==
    [pc |-> "idle", variant |-> "none", inv |-> 0,
     cands |-> <<>>, i |-> 1, new |-> 0, skipped |-> 0,
     log |-> NoLog, started_at |-> 0, batches |-> 0,
     result |-> NoResult, exc |-> FALSE,
     pre |-> {}, excs |-> {}, finals |-> 0]

EntityOf(variant) == IF variant \in JobVariants THEN "job" ELSE "startup"

SourceTag(variant) == IF variant \in JobVariants THEN "exa" ELSE "exa-dealflow"

TableOf(variant) == IF variant \in JobVariants THEN jobs ELSE startups

Quiet == \A r \in Runs : run[r].pc = "idle"

\* ---------------------------------------------------------------- actions
ScrapeInit ==
    /\ jobs = <<>>
    /\ startups = <<>>
    /\ logs = <<>>
    /\ run = [r \in Runs |-> IdleRun]
    /\ now = 0
    /\ invocations = 0

\* datetime.utcnow() advances.
Tick ==
    /\ now < MaxTime
    /\ now' = now + 1
    /\ UNCHANGED <<jobs, startups, logs, run, invocations>>
    /\ UNCHANGED <<streakVars, appVars, lateVars>>

\* POST /jobs -> JobService.create_job; jobs.source_url is UNIQUE, so a
\* second row with the same source_url fails with IntegrityError.
CreateJob(key) ==
    /\ Len(jobs) < MaxRows
    /\ jobs' = IF Matching(jobs, key) = {} THEN InsertRow(jobs, key, 0) ELSE jobs
    /\ UNCHANGED <<startups, logs, run, now, invocations>>
    /\ UNCHANGED <<streakVars, appVars, lateVars>>

\* POST /startups -> StartupService.create_startup; website is optional and
\* carries no uniqueness constraint.
CreateStartup(key) ==
    /\ Len(startups) < MaxRows
    /\ startups' = InsertRow(startups, key, 0)
    /\ UNCHANGED <<jobs, logs, run, now, invocations>>
    /\ UNCHANGED <<streakVars, appVars, lateVars>>

\* Variant: the loop is left after the first candidate handled.
AfterCandidate_Stop(rec, i) == IF i > Len(rec.cands) \/ i > 1 THEN "commit" ELSE "check"

\* Where the loop goes after candidate i: the next candidate, or the
\* "Commit all changes" await once the list is exhausted.
AfterCandidate(rec, i) == IF i > Len(rec.cands) THEN "commit" ELSE "check"

\* Entry of run_scraping_job (also reached through search_vc_firms),
\* run_dealflow_scrape, search_accelerators and search_sectors, up to the
\* first await.  nb is the length of the accelerators / sectors list; at
\* most max invocations are started.
StartRunUpTo(r, v, nb, max) ==
    /\ run[r].pc = "idle"
    /\ invocations < max
    /\ invocations' = invocations + 1
    /\ IF v \in LoggedVariants
       THEN run' = [run EXCEPT ![r] =
                [IdleRun EXCEPT !.pc = "search", !.variant = v,
                                !.inv = invocations + 1,
                                !.started_at = now,
                                !.log = NewLog(SourceTag(v), now),
                                !.pre = KeysOf(TableOf(v))]]
       ELSE run' = [run EXCEPT ![r] =
                [IdleRun EXCEPT !.pc = IF nb = 0 THEN "commit" ELSE "search",
                                !.variant = v,
                                !.inv = invocations + 1,
                                !.batches = nb,
                                !.started_at = now,
                                !.pre = KeysOf(TableOf(v))]]
    /\ UNCHANGED <<jobs, startups, logs, now>>
    /\ UNCHANGED <<streakVars, appVars, lateVars>>

StartRun(r, v, nb) == StartRunUpTo(r, v, nb, MaxInvocations)

\* Variant: the results of a batch element are put in front.
Extend_Front(all_startups, cs) == cs \o all_startups

\* all_startups.extend(startups)
Extend(all_startups, cs) == all_startups \o cs

\* The awaited search call returns the candidate list cs.
SearchReturn(r, cs) ==
    LET rec == run[r] IN
    /\ rec.pc = "search"
    /\ Len(rec.cands) + Len(cs) <= MaxCands
    /\ IF rec.variant \in LoggedVariants
       THEN LET rec2 == [rec EXCEPT !.cands = cs,
                                    !.log.jobs_found = Some(Len(cs))]
            IN  run' = [run EXCEPT ![r] =
                        [rec2 EXCEPT !.pc = AfterCandidate(rec2, 1)]]
       ELSE LET rec2 == [rec EXCEPT !.cands = Extend(rec.cands, cs),
                                    !.batches = rec.batches - 1]
            IN  run' = [run EXCEPT ![r] =
                        IF rec2.batches = 0
                        THEN [rec2 EXCEPT !.started_at = now,
                                          !.pc = AfterCandidate(rec2, 1)]
                        ELSE rec2]
    /\ UNCHANGED <<jobs, startups, logs, now, invocations>>
    /\ UNCHANGED <<streakVars, appVars, lateVars>>

\* Variant: the except-branch leaves duration_seconds unset.
FailLog_NoDuration(log, t, started) ==
    [log EXCEPT !.status = "failed",
                !.error_message = Some("search error"),
                !.completed_at = Some(t)]

\* The except-branch of run_scraping_job / run_dealflow_scrape up to its
\* await db.commit(): the in-memory log is marked failed.
FailLog(log, t, started) ==
    [log EXCEPT !.status = "failed",
                !.error_message = Some("search error"),
                !.completed_at = Some(t),
                !.duration_seconds = Some(t - started)]

\* The awaited search call raises.  The single-query variants run their
\* except-branch; the batch variants have no handler and propagate.
SearchRaise(r) ==
    LET rec == run[r] IN
    /\ rec.pc = "search"
    /\ IF rec.variant \in LoggedVariants
       THEN run' = [run EXCEPT ![r] =
                [rec EXCEPT !.pc = "persist", !.exc = TRUE,
                            !.log = FailLog(rec.log, now, rec.started_at),
                            !.finals = rec.finals + 1]]
       ELSE run' = [run EXCEPT ![r] =
                [rec EXCEPT !.pc = "done", !.exc = TRUE,
                            !.result = [NoResult EXCEPT !.status = "raised"]]]
    /\ UNCHANGED <<jobs, startups, logs, now, invocations>>
    /\ UNCHANGED <<streakVars, appVars, lateVars>>

\* JobCreate(**job_data) requires source_url; StartupCreate(**startup_data)
\* does not require website.
Validates(entity, c) ==
    IF entity = "job" THEN c.ok /\ c.key # NoKey ELSE c.ok

\* Variant: no candidate is looked up before it is inserted.
Queries_Never(entity, c) == FALSE

\* Whether the loop body issues the existence query for this candidate:
\* always for jobs, only for a truthy website for startups.
Queries(entity, c) == entity = "job" \/ c.key # NoKey

\* One pass of the loop body up to the insert: existence check, then
\* construction of the create schema.  An exception is swallowed by the
\* inner except, which counts the candidate as skipped.
CheckCandidate(r) ==
    LET rec == run[r]
        c == rec.cands[rec.i]
        entity == EntityOf(rec.variant)
        found == IF Queries(entity, c)
                 THEN ScalarOneOrNone(Matching(TableOf(rec.variant), c.key))
                 ELSE "none"
        skip == [rec EXCEPT !.skipped = rec.skipped + 1, !.i = rec.i + 1,
                            !.pc = AfterCandidate(rec, rec.i + 1)]
    IN
    /\ rec.pc = "check"
    /\ run' = [run EXCEPT ![r] =
            IF found = "one" THEN skip
            ELSE IF found = "raise" \/ ~Validates(entity, c)
                 THEN [skip EXCEPT !.excs = rec.excs \cup {rec.i}]
            ELSE [rec EXCEPT !.pc = "insert"]]
    /\ UNCHANGED <<jobs, startups, logs, now, invocations>>
    /\ UNCHANGED <<streakVars, appVars, lateVars>>

\* create_job / create_startup: db.add(row); await db.commit().  For jobs
\* the UNIQUE constraint on source_url rejects a row whose key has been
\* inserted since the check (IntegrityError, swallowed by the inner except).
InsertCandidate(r) ==
    LET rec == run[r]
        c == rec.cands[rec.i]
        entity == EntityOf(rec.variant)
        created == [rec EXCEPT !.new = rec.new + 1, !.i = rec.i + 1,
                               !.pc = AfterCandidate(rec, rec.i + 1)]
        failed == [rec EXCEPT !.skipped = rec.skipped + 1, !.i = rec.i + 1,
                              !.excs = rec.excs \cup {rec.i},
                              !.pc = AfterCandidate(rec, rec.i + 1)]
    IN
    /\ rec.pc = "insert"
    /\ IF entity = "job"
       THEN IF Matching(jobs, c.key) = {}
            THEN /\ jobs' = InsertRow(jobs, c.key, rec.inv)
                 /\ run' = [run EXCEPT ![r] = created]
            ELSE /\ jobs' = jobs
                 /\ run' = [run EXCEPT ![r] = failed]
       ELSE jobs' = jobs
    /\ IF entity = "startup"
       THEN /\ startups' = InsertRow(startups, c.key, rec.inv)
            /\ run' = [run EXCEPT ![r] = created]
       ELSE startups' = startups
    /\ UNCHANGED <<logs, now, invocations>>
    /\ UNCHANGED <<streakVars, appVars, lateVars>>

\* Variant: the new rows are reported as updated as well.
CompleteLog_CountsUpdated(log, new, t, started) ==
    [log EXCEPT !.status = "completed",
                !.jobs_new = Some(new),
                !.jobs_updated = Some(new),
                !.completed_at = Some(t),
                !.duration_seconds = Some(t - started)]

\* Variant: the status is left as it was set at construction.
CompleteLog_KeepsStatus(log, new, t, started) ==
    [log EXCEPT !.jobs_new = Some(new),
                !.jobs_updated = Some(0),
                !.completed_at = Some(t),
                !.duration_seconds = Some(t - started)]

\* "Step 3: Update scraping log": the in-memory log is marked completed.
CompleteLog(log, new, t, started) ==
    [log EXCEPT !.status = "completed",
                !.jobs_new = Some(new),
                !.jobs_updated = Some(0),
                !.completed_at = Some(t),
                !.duration_seconds = Some(t - started)]

\* Variant: a candidate that raised is left out of duplicates_removed.
Summary_ExceptionsUncounted(rec, t) ==
    [status |-> "completed", found |-> Len(rec.cands), new |-> rec.new,
     updated |-> 0, duplicates_removed |-> rec.skipped - Cardinality(rec.excs),
     duration_seconds |-> t - rec.started_at]

\* The dictionary every variant returns.
Summary(rec, t) ==
    [status |-> "completed", found |-> Len(rec.cands), new |-> rec.new,
     updated |-> 0, duplicates_removed |-> rec.skipped,
     duration_seconds |-> t - rec.started_at]

\* "Commit all changes" returns.  The single-query variants then fill in
\* the log and reach the await that persists it; the batch variants
\* compute the duration and return.
CommitLoop(r) ==
    LET rec == run[r] IN
    /\ rec.pc = "commit"
    /\ IF rec.variant \in LoggedVariants
       THEN run' = [run EXCEPT ![r] =
                [rec EXCEPT !.pc = "persist",
                            !.log = CompleteLog(rec.log, rec.new, now, rec.started_at),
                            !.result = Summary(rec, now),
                            !.finals = rec.finals + 1]]
       ELSE run' = [run EXCEPT ![r] =
                [rec EXCEPT !.pc = "done", !.result = Summary(rec, now)]]
    /\ UNCHANGED <<jobs, startups, logs, now, invocations>>
    /\ UNCHANGED <<streakVars, appVars, lateVars>>

\* db.add(scraping_log); await db.commit(); then return the summary or
\* re-raise.
PersistLog(r) ==
    LET rec == run[r] IN
    /\ rec.pc = "persist"
    /\ logs' = InsertLog(logs, rec.log, rec.inv)
    /\ run' = [run EXCEPT ![r] =
            [rec EXCEPT !.pc = "done",
                        !.result = IF rec.exc
                                   THEN [NoResult EXCEPT !.status = "raised"]
                                   ELSE rec.result]]
    /\ UNCHANGED <<jobs, startups, now, invocations>>
    /\ UNCHANGED <<streakVars, appVars, lateVars>>

\* The invocation's frame is gone; the slot can serve another request.
Return(r) ==
    /\ run[r].pc = "done"
    /\ run' = [run EXCEPT ![r] = IdleRun]
    /\ UNCHANGED <<jobs, startups, logs, now, invocations>>
    /\ UNCHANGED <<streakVars, appVars, lateVars>>

RunStep(r) ==
    \/ \E cs \in CandLists : SearchReturn(r, cs)
    \/ SearchRaise(r)
    \/ CheckCandidate(r)
    \/ InsertCandidate(r)
    \/ CommitLoop(r)
    \/ PersistLog(r)
    \/ Return(r)

\* Requests served one at a time, by the coroutine slot Main.
Main == 1

ScrapeNext ==
    \/ Tick
    \/ Quiet /\ \E k \in Keys : CreateJob(k)
    \/ Quiet /\ \E k \in Keys \cup {NoKey} : CreateStartup(k)
    \/ \E v \in Variants, nb \in 0..MaxBatches : StartRun(Main, v, nb)
    \/ RunStep(Main)

\* Two requests to the startup scrape served concurrently, one per
\* coroutine slot, on storage without startups.
RaceCandidates == [key : {"a", NoKey}, ok : BOOLEAN]

RaceLists == SeqsUpTo(RaceCandidates, MaxCands)

RaceNext ==
    \/ \E r \in Runs : StartRunUpTo(r, "dealflow", 0, 2)
    \/ \E r \in Runs : \E cs \in RaceLists : SearchReturn(r, cs)
    \/ \E r \in Runs : SearchRaise(r)
    \/ \E r \in Runs : CheckCandidate(r)
    \/ \E r \in Runs : InsertCandidate(r)
    \/ \E r \in Runs : CommitLoop(r)
    \/ \E r \in Runs : PersistLog(r)

\* The same scrape requested twice, the second request after the first has
\* ended; the frame of the first is kept in slot 1 for comparison.
Again == 2

\* What the searches of the second request may return: the search
\* collaborator answers as it did the first time, so that the second
\* candidate list is built up to the first one.
SameAnswers ==
    IF run[Again].variant \in LoggedVariants
    THEN {run[Main].cands}
    ELSE {cs \in CandLists :
            /\ Len(run[Again].cands) + Len(cs) <= Len(run[Main].cands)
            /\ Extend(run[Again].cands, cs)
                    = SubSeq(run[Main].cands, 1, Len(run[Again].cands) + Len(cs))}

TwiceNext ==
    \/ Quiet /\ invocations = 0 /\ \E k \in Keys : CreateStartup(k)
    \/ Quiet /\ \E v \in Variants, nb \in 0..MaxBatches : StartRunUpTo(Main, v, nb, 2)
    \/ \E cs \in CandLists : SearchReturn(Main, cs)
    \/ SearchRaise(Main)
    \/ CheckCandidate(Main)
    \/ InsertCandidate(Main)
    \/ CommitLoop(Main)
    \/ PersistLog(Main)
    \/ /\ run[Main].pc = "done" /\ run[Main].result.status = "completed"
       /\ \E nb \in 0..MaxBatches : StartRunUpTo(Again, run[Main].variant, nb, 2)
    \/ \E cs \in SameAnswers : SearchReturn(Again, cs)
    \/ SearchRaise(Again)
    \/ CheckCandidate(Again)
    \/ InsertCandidate(Again)
    \/ CommitLoop(Again)
    \/ PersistLog(Again)

\* ------------------------------------------------------------------ streak
ActivityTypes == {"job", "dealflow"}
ActivityArgs == ActivityTypes \cup {"other"}
Days == 0..MaxDay

\* Column defaults of UserSettings.
DefaultJobGoal == 10
DefaultDealflowGoal == 5

\* UserSettings() as stored by db.add / commit / refresh.
NewSettings ==
    [weekly_job_application_goal |-> DefaultJobGoal,
     weekly_dealflow_sourcing_goal |-> DefaultDealflowGoal,
     job_application_streak |-> 0,
     job_application_streak_updated |-> None,
     dealflow_sourcing_streak |-> 0,
     dealflow_sourcing_streak_updated |-> None]

\* Variant: any earlier date counts as the previous day.
StreakBranch_GapIncrements(streak, last_updated, d) ==
    IF last_updated = None THEN <<1, Some(d)>>
    ELSE IF last_updated = Some(d) THEN <<streak, last_updated>>
    ELSE IF last_updated[1] < d THEN <<streak + 1, Some(d)>>
    ELSE <<1, Some(d)>>

\* Variant: a call on the day already counted counts again.
StreakBranch_SameDayCounts(streak, last_updated, d) ==
    IF last_updated = None THEN <<1, Some(d)>>
    ELSE IF last_updated = Some(d) THEN <<streak + 1, last_updated>>
    ELSE IF last_updated = Some(d - 1) THEN <<streak + 1, Some(d)>>
    ELSE <<1, Some(d)>>

\* Variant: a broken streak keeps its counter.
StreakBranch_KeepOnBreak(streak, last_updated, d) ==
    IF last_updated = None THEN <<1, Some(d)>>
    ELSE IF last_updated = Some(d) THEN <<streak, last_updated>>
    ELSE IF last_updated = Some(d - 1) THEN <<streak + 1, Some(d)>>
    ELSE <<streak, Some(d)>>

\* Variant: a broken streak starts again from 0.
StreakBranch_ResetToZero(streak, last_updated, d) ==
    IF last_updated = None THEN <<1, Some(d)>>
    ELSE IF last_updated = Some(d) THEN <<streak, last_updated>>
    ELSE IF last_updated = Some(d - 1) THEN <<streak + 1, Some(d)>>
    ELSE <<0, Some(d)>>

\* The if / elif chain applied to the selected pair: <<counter, date>>.
StreakBranch(streak, last_updated, d) ==
    IF last_updated = None THEN <<1, Some(d)>>
    ELSE IF last_updated = Some(d) THEN <<streak, last_updated>>
    ELSE IF last_updated = Some(d - 1) THEN <<streak + 1, Some(d)>>
    ELSE <<1, Some(d)>>

\* Variant: the branch is applied to both pairs whatever the type.
ApplyStreak_Both(row, activity_type, d) ==
    LET j == StreakBranch(row.job_application_streak,
                          row.job_application_streak_updated, d)
        f == StreakBranch(row.dealflow_sourcing_streak,
                          row.dealflow_sourcing_streak_updated, d)
    IN  [row EXCEPT !.job_application_streak = j[1],
                    !.job_application_streak_updated = j[2],
                    !.dealflow_sourcing_streak = f[1],
                    !.dealflow_sourcing_streak_updated = f[2]]

\* The body of update_streak on the settings row.
ApplyStreak(row, activity_type, d) ==
    IF activity_type = "job"
    THEN LET p == StreakBranch(row.job_application_streak,
                               row.job_application_streak_updated, d)
         IN  [row EXCEPT !.job_application_streak = p[1],
                         !.job_application_streak_updated = p[2]]
    ELSE IF activity_type = "dealflow"
    THEN LET p == StreakBranch(row.dealflow_sourcing_streak,
                               row.dealflow_sourcing_streak_updated, d)
         IN  [row EXCEPT !.dealflow_sourcing_streak = p[1],
                         !.dealflow_sourcing_streak_updated = p[2]]
    ELSE row

\* _get_or_create_user_settings: the table after the call.
GetOrCreate(table) == IF table = <<>> THEN <<NewSettings>> ELSE table

\* Bookkeeping of the calls made, for the statements about call sequences.
Record(h, d) ==
    IF h.mono /\ (h.last = None \/ h.last[1] <= d)
    THEN [days |-> h.days \cup {d}, last |-> Some(d), mono |-> TRUE]
    ELSE [days |-> {}, last |-> Some(d), mono |-> FALSE]

StreakInit ==
    /\ user_settings = <<>>
    /\ today = 0
    /\ history = [t \in ActivityTypes |-> [days |-> {}, last |-> None, mono |-> TRUE]]
    /\ callsToday = [t \in ActivityTypes |-> 0]

\* update_streak(db, activity_type), requests served one at a time.
UpdateStreak(activity_type) ==
    /\ Len(user_settings) <= 1
    /\ user_settings' = <<ApplyStreak(GetOrCreate(user_settings)[1], activity_type, today)>>
    /\ history' = [t \in ActivityTypes |->
                    IF t = activity_type THEN Record(history[t], today) ELSE history[t]]
    /\ callsToday' = [t \in ActivityTypes |->
                    IF t = activity_type /\ callsToday[t] < 2
                    THEN callsToday[t] + 1 ELSE callsToday[t]]
    /\ UNCHANGED today
    /\ UNCHANGED <<scrapeVars, appVars, lateVars>>

\* date.today() returns another day: the next one, a later one, or (clock
\* set back) an earlier one.
SetDay(d) ==
    /\ d # today
    /\ today' = d
    /\ callsToday' = [t \in ActivityTypes |-> 0]
    /\ UNCHANGED <<user_settings, history>>
    /\ UNCHANGED <<scrapeVars, appVars, lateVars>>

StreakNext ==
    \/ \E a \in ActivityArgs : UpdateStreak(a)
    \/ \E d \in Days : SetDay(d)

\* ------------------------------------------------------------ applications
Kinds == {"application", "dealflow"}
Parents == {1, 2}
Reqs == {1, 2}

IdleReq == [pc |-> "idle", kind |-> "none", parent |-> 0, status |-> "none", resp |-> 0]

\* select(Application).where(Application.job_id == job_id), and the same
\* for DealflowApplication.startup_id.
ByParent(table, parent) == {i \in DOMAIN table : table[i].parent = parent}

StatusesOf(kind) ==
    IF kind = "application" THEN {"saved", "applied"} ELSE {"sourced", "contacted"}

\* The id an INTEGER PRIMARY KEY column gives the next row.
NextId(table) ==
    IF table = <<>> THEN 1
    ELSE 1 + CHOOSE m \in {table[i].id : i \in DOMAIN table} :
                 \A i \in DOMAIN table : table[i].id <= m

\* Application(**application_data.model_dump()); db.add; await db.commit().
InsertApplication(table, parent, status) ==
    Append(table, [id |-> NextId(table), parent |-> parent, status |-> status])

\* select(Application).where(Application.id == application_id)
ById(table, id) == {i \in DOMAIN table : table[i].id = id}

AppInit ==
    /\ applications = [k \in Kinds |-> <<>>]
    /\ req = [q \in Reqs |-> IdleReq]
    /\ requests = 0

\* POST / of routes/applications.py or routes/dealflow.py, up to the await
\* of the existence query.
BeginCreate(q, kind, parent, status) ==
    /\ req[q].pc = "idle"
    /\ requests < MaxRequests
    /\ requests' = requests + 1
    /\ req' = [req EXCEPT ![q] = [pc |-> "check", kind |-> kind, parent |-> parent,
                                  status |-> status, resp |-> 0]]
    /\ UNCHANGED applications
    /\ UNCHANGED <<scrapeVars, streakVars, lateVars>>

\* get_application_by_job / get_application_by_startup returns: 409 when a
\* row exists, an unhandled MultipleResultsFound (500) when several do,
\* otherwise on to the insert.
CheckExisting(q) ==
    LET found == ScalarOneOrNone(ByParent(applications[req[q].kind], req[q].parent)) IN
    /\ req[q].pc = "check"
    /\ req' = [req EXCEPT ![q] =
            IF found = "one" THEN [@ EXCEPT !.pc = "done", !.resp = 409]
            ELSE IF found = "raise" THEN [@ EXCEPT !.pc = "done", !.resp = 500]
            ELSE [@ EXCEPT !.pc = "insert"]]
    /\ UNCHANGED <<applications, requests>>
    /\ UNCHANGED <<scrapeVars, streakVars, lateVars>>

\* create_application commits the new row; the route answers 201.
CommitCreate(q) ==
    /\ req[q].pc = "insert"
    /\ applications' = [applications EXCEPT ![req[q].kind] =
            InsertApplication(@, req[q].parent, req[q].status)]
    /\ req' = [req EXCEPT ![q] = [@ EXCEPT !.pc = "done", !.resp = 201]]
    /\ UNCHANGED requests
    /\ UNCHANGED <<scrapeVars, streakVars, lateVars>>

\* The response has been sent.
EndCreate(q) ==
    /\ req[q].pc = "done"
    /\ req' = [req EXCEPT ![q] = IdleReq]
    /\ UNCHANGED <<applications, requests>>
    /\ UNCHANGED <<scrapeVars, streakVars, lateVars>>

\* The table without the rows at the positions gone.
RECURSIVE Without(_, _)
Without(table, gone) ==
    IF table = <<>> THEN <<>>
    ELSE LET rest == Without(SubSeq(table, 1, Len(table) - 1), gone)
         IN  IF Len(table) \in gone THEN rest ELSE Append(rest, table[Len(table)])

\* DELETE /{application_id}: delete_application removes the row (404 and
\* no change when there is none).
DeleteApplication(kind, id) ==
    /\ ById(applications[kind], id) # {}
    /\ applications' = [applications EXCEPT ![kind] = Without(@, ById(@, id))]
    /\ UNCHANGED <<req, requests>>
    /\ UNCHANGED <<scrapeVars, streakVars, lateVars>>

\* PUT /{application_id}: update_application sets the fields of the update
\* schema, which has no job_id / startup_id.
UpdateApplication(kind, id, status) ==
    /\ ById(applications[kind], id) # {}
    /\ applications' = [applications EXCEPT ![kind] =
            [i \in DOMAIN @ |-> IF @[i].id = id THEN [@[i] EXCEPT !.status = status] ELSE @[i]]]
    /\ UNCHANGED <<req, requests>>
    /\ UNCHANGED <<scrapeVars, streakVars, lateVars>>

AppNext ==
    \/ \E q \in Reqs, k \in Kinds, p \in Parents :
            \E st \in StatusesOf(k) : BeginCreate(q, k, p, st)
    \/ \E q \in Reqs : CheckExisting(q)
    \/ \E q \in Reqs : CommitCreate(q)
    \/ \E q \in Reqs : EndCreate(q)
    \/ \E k \in Kinds, id \in 1..MaxRequests : DeleteApplication(k, id)
    \/ \E k \in Kinds, id \in 1..MaxRequests :
            \E st \in StatusesOf(k) : UpdateApplication(k, id, st)

\* ------------------------------------------------------------------- stats
\* ApplicationStatus and DealflowStatus, the values the create and update
\* schemas accept.
ApplicationStatuses == {"saved", "applied", "interviewing", "rejected", "offer", "accepted"}
DealflowStatuses ==
    {"sourced", "researching", "contacted", "meeting", "shared", "progressing", "closed"}

\* select(func.count()) ... .where(...): the number of rows among those
\* selected.
CountRows(table, selected) == BagCardinality([e \in selected \cap DOMAIN table |-> table[e]])

\* db.add(row); await db.commit()
AddRow(table, e) == table (+) SetToBag({e})

\* await db.delete(row); await db.commit()
RemoveRow(table, e) == table (-) SetToBag({e})

\* select(status, func.count(id)).group_by(status), as a dict.
ByStatus(table) ==
    [s \in {e.status : e \in DOMAIN table} |->
        CountRows(table, {e \in DOMAIN table : e.status = s})]

\* dict.get(key, 0)
Get(d, key) == IF key \in DOMAIN d THEN d[key] ELSE 0

\* A quotient is kept as <<numerator, denominator>>; a rounded value is an
\* integer number of thousandths.

\* Variant: the digits after the third decimal are dropped.
Round3_Floor(q) == (1000 * q[1]) \div q[2]

\* round(x, 3): the nearest thousandth, a tie going to the even one.
Round3(q) ==
    LET n == 1000 * q[1]
        f == n \div q[2]
        r == n % q[2]
    IN  IF 2 * r < q[2] THEN f
        ELSE IF 2 * r > q[2] THEN f + 1
        ELSE IF f % 2 = 0 THEN f ELSE f + 1

\* (a / b) if b > 0 else 0
Ratio(a, b) == IF b > 0 THEN <<a, b>> ELSE <<0, 1>>

\* Variant: "accepted" is left out of the denominator.
AppliedCount_NoAccepted(by_status) ==
    Get(by_status, "applied") + Get(by_status, "interviewing")
        + Get(by_status, "rejected") + Get(by_status, "offer")

\* Variant: "saved" is counted in the denominator.
AppliedCount_WithSaved(by_status) ==
    Get(by_status, "saved") + Get(by_status, "applied")
        + Get(by_status, "interviewing") + Get(by_status, "rejected")
        + Get(by_status, "offer") + Get(by_status, "accepted")

\* applied_count of get_application_stats.
AppliedCount(by_status) ==
    Get(by_status, "applied") + Get(by_status, "interviewing")
        + Get(by_status, "rejected") + Get(by_status, "offer")
        + Get(by_status, "accepted")

\* The "recent applications" query: applied_date >= today - 7 (a NULL date
\* never compares true).
RecentApplications(table, d) ==
    LET seven_days_ago == d - 7 IN
    CountRows(table, {e \in DOMAIN table :
        e.applied_date # None /\ e.applied_date[1] >= seven_days_ago})

\* get_application_stats on the table, with date.today() = d.  The follow-up
\* count reads a column the model does not keep.
ApplicationStats(table, d) ==
    LET by_status == ByStatus(table)
        applied_count == AppliedCount(by_status)
        responded_count == Get(by_status, "interviewing") + Get(by_status, "rejected")
                            + Get(by_status, "offer") + Get(by_status, "accepted")
        interview_count == Get(by_status, "interviewing") + Get(by_status, "offer")
                            + Get(by_status, "accepted")
        offer_count == Get(by_status, "offer") + Get(by_status, "accepted")
    IN  [op |-> "application_stats",
         total |-> BagCardinality(table),
         by_status |-> by_status,
         recent_applications |-> RecentApplications(table, d),
         response_rate |-> Round3(Ratio(responded_count, applied_count)),
         interview_rate |-> Round3(Ratio(interview_count, applied_count)),
         offer_rate |-> Round3(Ratio(offer_count, applied_count))]

\* get_dealflow_stats on the table, with date.today() = d.  The outcome,
\* e-mail, meeting and intro figures read columns the model does not keep.
DealflowStats(table, d) ==
    LET pipeline_breakdown == ByStatus(table)
        sourced_count == BagCardinality(table)
        contacted_count == Get(pipeline_breakdown, "contacted")
                            + Get(pipeline_breakdown, "meeting")
                            + Get(pipeline_breakdown, "shared")
                            + Get(pipeline_breakdown, "progressing")
                            + Get(pipeline_breakdown, "closed")
        meeting_count == Get(pipeline_breakdown, "meeting")
                            + Get(pipeline_breakdown, "shared")
                            + Get(pipeline_breakdown, "progressing")
                            + Get(pipeline_breakdown, "closed")
        shared_count == Get(pipeline_breakdown, "shared")
                            + Get(pipeline_breakdown, "progressing")
                            + Get(pipeline_breakdown, "closed")
        seven_days_ago == d - 7
    IN  [op |-> "dealflow_stats",
         total_startups_sourced |-> BagCardinality(table),
         pipeline_breakdown |-> pipeline_breakdown,
         conversion_rates |->
            [sourced_to_contacted |-> Round3(Ratio(contacted_count, sourced_count)),
             contacted_to_meeting |-> Round3(Ratio(meeting_count, contacted_count)),
             meeting_to_shared |-> Round3(Ratio(shared_count, meeting_count))],
         activity_last_7_days |->
            [new_startups |-> CountRows(table,
                {e \in DOMAIN table : e.created >= seven_days_ago})]]

\* Variant: the quotient is not clamped.
MinOne_NoClamp(q) == q

\* min(x, 1.0)
MinOne(q) == IF q[1] > q[2] THEN <<1, 1>> ELSE q

\* A weekly_goal block of the dashboard.
WeeklyGoal(current, target) ==
    [target |-> target, current |-> current,
     progress |-> Round3(MinOne(Ratio(current, target)))]

\* Variant: a streak whose last activity is neither today nor yesterday is
\* reported as 0.
CalculateJobStreak_Expires(settings) ==
    IF settings.job_application_streak_updated \in {Some(today), Some(today - 1)}
    THEN settings.job_application_streak
    ELSE 0

\* _calculate_job_streak: "For MVP, just return the stored streak".
CalculateJobStreak(settings) == settings.job_application_streak

\* _calculate_dealflow_streak
CalculateDealflowStreak(settings) == settings.dealflow_sourcing_streak

\* max(a, b)
Max(a, b) == IF a >= b THEN a ELSE b

\* The body get_dashboard_stats builds from the two stats and the settings.
DashboardView(job_stats, dealflow_stats, settings) ==
    LET job_streak == CalculateJobStreak(settings)
        dealflow_streak == CalculateDealflowStreak(settings)
    IN
    [op |-> "dashboard",
     jobs |->
        [total_active |-> job_stats.total,
         applications |->
            [total |-> job_stats.total,
             by_status |-> job_stats.by_status,
             response_rate |-> job_stats.response_rate,
             interview_rate |-> job_stats.interview_rate,
             offer_rate |-> job_stats.offer_rate],
         activity_last_7_days |-> job_stats.recent_applications,
         weekly_goal |-> WeeklyGoal(job_stats.recent_applications,
                                    settings.weekly_job_application_goal),
         current_streak |-> job_streak],
     dealflow |->
        [total_startups |-> dealflow_stats.total_startups_sourced,
         pipeline |-> dealflow_stats.pipeline_breakdown,
         conversion_rates |-> dealflow_stats.conversion_rates,
         activity_last_7_days |-> dealflow_stats.activity_last_7_days,
         weekly_goal |-> WeeklyGoal(dealflow_stats.activity_last_7_days.new_startups,
                                    settings.weekly_dealflow_sourcing_goal),
         current_streak |-> dealflow_streak],
     combined |->
        [total_activity_last_7_days |->
            job_stats.recent_applications
                + dealflow_stats.activity_last_7_days.new_startups,
         overall_streak |-> Max(job_streak, dealflow_streak)]]

NoResponse == [op |-> "none"]
Written == [op |-> "written"]

\* The applied dates a request may carry, around the edges of the window.
AppliedDates == {None} \cup {Some(today + k) : k \in {-7, -6, 0, 1}}

StatsInit ==
    /\ appRows = EmptyBag
    /\ dealRows = EmptyBag
    /\ response = NoResponse

\* create_application: one more row (at most max rows are kept).
CreateApplicationRow(status, applied_date, max) ==
    /\ BagCardinality(appRows) < max
    /\ appRows' = AddRow(appRows, [status |-> status, applied_date |-> applied_date])
    /\ response' = Written
    /\ UNCHANGED dealRows
    /\ UNCHANGED <<scrapeVars, streakVars, appVars, settingsVars, limitVars, contactVars>>

\* update_application: the fields of one row are set.
UpdateApplicationRow(e, status, applied_date) ==
    /\ e \in DOMAIN appRows
    /\ appRows' = AddRow(RemoveRow(appRows, e),
                         [status |-> status, applied_date |-> applied_date])
    /\ response' = Written
    /\ UNCHANGED dealRows
    /\ UNCHANGED <<scrapeVars, streakVars, appVars, settingsVars, limitVars, contactVars>>

\* delete_application
DeleteApplicationRow(e) ==
    /\ e \in DOMAIN appRows
    /\ appRows' = RemoveRow(appRows, e)
    /\ response' = Written
    /\ UNCHANGED dealRows
    /\ UNCHANGED <<scrapeVars, streakVars, appVars, settingsVars, limitVars, contactVars>>

\* GET /applications/stats
GetApplicationStats ==
    /\ response' = ApplicationStats(appRows, today)
    /\ UNCHANGED <<appRows, dealRows>>
    /\ UNCHANGED <<scrapeVars, streakVars, appVars, settingsVars, limitVars, contactVars>>

\* create_application of the dealflow service: created_at is the insert time.
CreateDealflowRow(status, max) ==
    /\ BagCardinality(dealRows) < max
    /\ dealRows' = AddRow(dealRows, [status |-> status, created |-> today])
    /\ response' = Written
    /\ UNCHANGED appRows
    /\ UNCHANGED <<scrapeVars, streakVars, appVars, settingsVars, limitVars, contactVars>>

\* update_application of the dealflow service: the status of one row is set.
UpdateDealflowRow(e, status) ==
    /\ e \in DOMAIN dealRows
    /\ dealRows' = AddRow(RemoveRow(dealRows, e), [e EXCEPT !.status = status])
    /\ response' = Written
    /\ UNCHANGED appRows
    /\ UNCHANGED <<scrapeVars, streakVars, appVars, settingsVars, limitVars, contactVars>>

\* delete_application of the dealflow service
DeleteDealflowRow(e) ==
    /\ e \in DOMAIN dealRows
    /\ dealRows' = RemoveRow(dealRows, e)
    /\ response' = Written
    /\ UNCHANGED appRows
    /\ UNCHANGED <<scrapeVars, streakVars, appVars, settingsVars, limitVars, contactVars>>

\* GET /dealflow/stats
GetDealflowStats ==
    /\ response' = DealflowStats(dealRows, today)
    /\ UNCHANGED <<appRows, dealRows>>
    /\ UNCHANGED <<scrapeVars, streakVars, appVars, settingsVars, limitVars, contactVars>>

\* GET /dashboard/stats, requests served one at a time.
GetDashboardStats ==
    /\ Len(user_settings) <= 1
    /\ LET job_stats == ApplicationStats(appRows, today)
           dealflow_stats == DealflowStats(dealRows, today)
           table == GetOrCreate(user_settings)
       IN  /\ user_settings' = table
           /\ response' = DashboardView(job_stats, dealflow_stats, table[1])
    /\ UNCHANGED <<appRows, dealRows>>
    /\ UNCHANGED <<today, history, callsToday>>
    /\ UNCHANGED <<scrapeVars, appVars, settingsVars, limitVars, contactVars>>

\* The goals of the settings row edited in storage: the columns are plain
\* integers and no handler writes them.
GoalChoices == {0, DefaultDealflowGoal, DefaultJobGoal}

SetGoals(job_goal, dealflow_goal) ==
    /\ Len(user_settings) = 1
    /\ user_settings' = <<[user_settings[1] EXCEPT
                            !.weekly_job_application_goal = job_goal,
                            !.weekly_dealflow_sourcing_goal = dealflow_goal]>>
    /\ response' = Written
    /\ UNCHANGED <<appRows, dealRows>>
    /\ UNCHANGED <<today, history, callsToday>>
    /\ UNCHANGED <<scrapeVars, appVars, settingsVars, limitVars, contactVars>>

JobStatsNext ==
    \/ \E s \in ApplicationStatuses, d \in AppliedDates :
            CreateApplicationRow(s, d, MaxStatsRows)
    \/ \E e \in DOMAIN appRows, s \in ApplicationStatuses, d \in AppliedDates :
            UpdateApplicationRow(e, s, d)
    \/ \E e \in DOMAIN appRows : DeleteApplicationRow(e)
    \/ GetApplicationStats

DealflowStatsNext ==
    \/ \E s \in DealflowStatuses : CreateDealflowRow(s, MaxPipelineRows)
    \/ \E e \in DOMAIN dealRows, s \in DealflowStatuses : UpdateDealflowRow(e, s)
    \/ \E e \in DOMAIN dealRows : DeleteDealflowRow(e)
    \/ GetDealflowStats

DashboardNext ==
    \/ CreateApplicationRow("applied", Some(today), MaxCurrent)
    \/ CreateDealflowRow("sourced", MaxCurrent \div 2)
    \/ GetApplicationStats
    \/ GetDealflowStats
    \/ GetDashboardStats
    \/ \E j \in GoalChoices, d \in GoalChoices : SetGoals(j, d)
    \/ \E a \in ActivityTypes : UpdateStreak(a)

\* The dashboard read between update_streak calls, under a date that moves
\* forward.
StreakViewNext ==
    \/ \E a \in ActivityTypes : UpdateStreak(a)
    \/ \E d \in Days : d > today /\ SetDay(d)
    \/ GetDashboardStats

\* ------------------------------------------------ settings row, concurrently
SettingsOps == {"dashboard", "streak"}

IdleSess == [pc |-> "idle", op |-> "none", activity |-> "none", at |-> 0,
             row |-> None, resp |-> 0]

SettingsInit == sess = [q \in Reqs |-> IdleSess]

\* A request enters get_dashboard_stats (whose two stats calls only read) or
\* update_streak and reaches the select of _get_or_create_user_settings.
BeginSettings(q, op, activity) ==
    /\ sess[q].pc = "idle"
    /\ sess' = [sess EXCEPT ![q] = [IdleSess EXCEPT !.pc = "read", !.op = op,
                                                     !.activity = activity]]
    /\ UNCHANGED <<scrapeVars, streakVars, appVars, statsVars, limitVars, contactVars>>

\* result.scalar_one_or_none(): the row, None (on to the insert), or an
\* unhandled MultipleResultsFound (500).
ReadSettings(q) ==
    LET found == ScalarOneOrNone(DOMAIN user_settings) IN
    /\ sess[q].pc = "read"
    /\ sess' = [sess EXCEPT ![q] =
            IF found = "one"
            THEN [@ EXCEPT !.pc = "use", !.at = 1, !.row = Some(user_settings[1])]
            ELSE IF found = "raise" THEN [@ EXCEPT !.pc = "done", !.resp = 500]
            ELSE [@ EXCEPT !.pc = "create"]]
    /\ UNCHANGED <<scrapeVars, streakVars, appVars, statsVars, limitVars, contactVars>>

\* settings = UserSettings(); db.add(settings); await db.commit()
CreateSettings(q) ==
    /\ sess[q].pc = "create"
    /\ user_settings' = Append(user_settings, NewSettings)
    /\ sess' = [sess EXCEPT ![q] = [@ EXCEPT !.pc = "refresh",
                                             !.at = Len(user_settings) + 1]]
    /\ UNCHANGED <<today, history, callsToday>>
    /\ UNCHANGED <<scrapeVars, appVars, statsVars, limitVars, contactVars>>

\* await db.refresh(settings)
RefreshSettings(q) ==
    /\ sess[q].pc = "refresh"
    /\ sess' = [sess EXCEPT ![q] = [@ EXCEPT !.pc = "use",
                                             !.row = Some(user_settings[sess[q].at])]]
    /\ UNCHANGED <<scrapeVars, streakVars, appVars, statsVars, limitVars, contactVars>>

\* The row after the UPDATE a commit issues: the attributes the session
\* changed take the session's values, the others stay as stored.
Flush(stored, loaded, changed) ==
    [f \in DOMAIN stored |-> IF changed[f] # loaded[f] THEN changed[f] ELSE stored[f]]

\* The rest of the handler: get_dashboard_stats builds its body;
\* update_streak applies the branch to the loaded row and commits.
UseSettings(q) ==
    /\ sess[q].pc = "use"
    /\ sess' = [sess EXCEPT ![q] = [@ EXCEPT !.pc = "done", !.resp = 200]]
    /\ IF sess[q].op = "streak"
       THEN user_settings' = [user_settings EXCEPT ![sess[q].at] =
                Flush(@, sess[q].row[1],
                      ApplyStreak(sess[q].row[1], sess[q].activity, today))]
       ELSE UNCHANGED user_settings
    /\ UNCHANGED <<today, history, callsToday>>
    /\ UNCHANGED <<scrapeVars, appVars, statsVars, limitVars, contactVars>>

\* The response has been sent.
EndSettings(q) ==
    /\ sess[q].pc = "done"
    /\ sess' = [sess EXCEPT ![q] = IdleSess]
    /\ UNCHANGED <<scrapeVars, streakVars, appVars, statsVars, limitVars, contactVars>>

SettingsNext ==
    \/ \E q \in Reqs : BeginSettings(q, "dashboard", "none")
    \/ \E q \in Reqs, a \in ActivityArgs : BeginSettings(q, "streak", a)
    \/ \E q \in Reqs : ReadSettings(q)
    \/ \E q \in Reqs : CreateSettings(q)
    \/ \E q \in Reqs : RefreshSettings(q)
    \/ \E q \in Reqs : UseSettings(q)
    \/ \E q \in Reqs : EndSettings(q)

\* ------------------------------------------------------------ result limit
\* "Exa max is 100": the cap of the two search services.
ExaMax == 100
\* Field(..., ge=1, le=100) of the request models.
FieldMax == 100

EntryPoints == {"start", "search-firms", "search-role",
                "dealflow-start", "accelerator", "sectors"}

\* The entry points whose count is a validated field of a request model.
Validated(point) == point \in {"start", "dealflow-start", "accelerator", "sectors"}

\* The entry points that take a list (of firms, of sectors).
Listed(point) == point \in {"search-firms", "sectors"}

\* The num_results the service hands the search service in each call.
Requested(point, n, k) == IF point = "search-firms" THEN n * k ELSE n

\* The number of searches of one request.
Searches(point, k) == IF point = "sectors" THEN k ELSE 1

\* num_results=min(num_results, 100)
ClientArg(num_results) == IF num_results < ExaMax THEN num_results ELSE ExaMax

RECURSIVE Sum(_)
Sum(s) == IF s = <<>> THEN 0 ELSE s[1] + Sum(Tail(s))

\* The counts a request may carry.
RequestSizes == {1, FieldMax \div 2, FieldMax - 1, FieldMax, FieldMax + 1, 2 * FieldMax}

NoEntry == [point |-> "none", n |-> 0, k |-> 0, status |-> 0,
            calls |-> <<>>, candidates |-> 0]

LimitInit == entry = NoEntry

\* One request to a scrape entry point with count n and k list items; search
\* i returns nothing, one result, or as many as it was asked for (full[i]).
\* The searches do not fail here.
ScrapeEntry(point, n, k, full) ==
    /\ Len(full) = Searches(point, k)
    /\ entry' =
        IF Validated(point) /\ (n < 1 \/ n > FieldMax)
        THEN [point |-> point, n |-> n, k |-> k, status |-> 422,
              calls |-> <<>>, candidates |-> 0]
        ELSE LET arg == ClientArg(Requested(point, n, k))
                 calls == [i \in 1..Searches(point, k) |-> arg]
                 got == [i \in 1..Searches(point, k) |->
                            IF full[i] = "all" THEN arg
                            ELSE IF full[i] = "one" THEN 1 ELSE 0]
             IN  [point |-> point, n |-> n, k |-> k, status |-> 200,
                  calls |-> calls, candidates |-> Sum(got)]
    /\ UNCHANGED <<scrapeVars, streakVars, appVars, statsVars, settingsVars, contactVars>>

LimitNext ==
    \E point \in EntryPoints, n \in RequestSizes :
        \E k \in (IF Listed(point) THEN 1..MaxBatches ELSE {1}) :
            \E full \in SeqsUpTo({"none", "one", "all"}, MaxBatches) :
                ScrapeEntry(point, n, k, full)

\* ------------------------------------------------------------ contact log
\* The contact types a request may carry.
ContactTypes == {"email", "meeting", "call"}

\* DealflowApplication(**application_data.model_dump()): the create schema
\* has no contact field, so the dates are NULL and the counters take the
\* column default 0.
NewContactRow ==
    [first_contact_date |-> None, last_contact_date |-> None,
     emails_sent |-> Some(0), meetings_held |-> Some(0)]

\* The counter columns are nullable Integer; the update schema types them
\* Optional[int], so a PUT body may carry null or a number.
CounterValues == {None, Some(0)}

\* x += 1 on an attribute: TypeError for None.
PlusOne(v) == IF v = None THEN "TypeError" ELSE Some(v[1] + 1)

\* if not application.first_contact_date: application.first_contact_date = today
SetFirst(first_contact_date, d) ==
    IF first_contact_date = None THEN Some(d) ELSE first_contact_date

\* The body of log_contact on a loaded row, with date.today() = d; the
\* attribute the increment raises on is left as it was (nothing is
\* committed in that case).
ApplyContact(row, contact_type, d) ==
    LET counted ==
            IF contact_type = "email"
            THEN [row EXCEPT !.emails_sent = PlusOne(row.emails_sent)]
            ELSE IF contact_type = "meeting"
            THEN [row EXCEPT !.meetings_held = PlusOne(row.meetings_held)]
            ELSE row
    IN  [counted EXCEPT !.last_contact_date = Some(d),
                        !.first_contact_date = SetFirst(row.first_contact_date, d)]

\* Whether the increment of log_contact raises on the row.
Raises(row, contact_type) ==
    \/ contact_type = "email" /\ row.emails_sent = None
    \/ contact_type = "meeting" /\ row.meetings_held = None

\* response_model=DealflowApplicationResponse types both counters int: a
\* row with a NULL counter fails response validation (500) after the
\* handler has committed.
Answer(row) ==
    IF row.emails_sent = None \/ row.meetings_held = None THEN 500 ELSE 200

ContactInit ==
    /\ contactRows = <<>>
    /\ contactResp = 0

\* POST /dealflow: create_application adds a row.
CreateContactRow ==
    /\ Len(contactRows) < MaxContactRows
    /\ contactRows' = Append(contactRows, NewContactRow)
    /\ contactResp' = 201
    /\ UNCHANGED <<scrapeVars, streakVars, appVars, statsVars, settingsVars, limitVars>>

\* PUT /dealflow/{id} with a body that carries one counter field:
\* update_application sets every field of model_dump(exclude_unset=True).
UpdateContactRow(id, field, value) ==
    /\ IF id \in DOMAIN contactRows
       THEN /\ contactRows' = [contactRows EXCEPT ![id] =
                    IF field = "emails_sent" THEN [@ EXCEPT !.emails_sent = value]
                    ELSE [@ EXCEPT !.meetings_held = value]]
            /\ contactResp' = Answer(contactRows'[id])
       ELSE /\ contactRows' = contactRows
            /\ contactResp' = 404
    /\ UNCHANGED <<scrapeVars, streakVars, appVars, statsVars, settingsVars, limitVars>>

\* POST /dealflow/{id}/contact: 400 for a contact type other than email or
\* meeting, 404 when get_application finds no row, an unhandled TypeError
\* (500, nothing committed) when the counter is NULL, else the row is
\* changed and committed.  A counter stops at MaxContacts.
LogContact(id, contact_type) ==
    /\ id \in DOMAIN contactRows =>
            /\ contactRows[id].emails_sent \in {None} \cup {Some(n) : n \in 0..(MaxContacts - 1)}
            /\ contactRows[id].meetings_held \in {None} \cup {Some(n) : n \in 0..(MaxContacts - 1)}
    /\ IF contact_type \notin {"email", "meeting"}
       THEN contactRows' = contactRows /\ contactResp' = 400
       ELSE IF id \notin DOMAIN contactRows
       THEN contactRows' = contactRows /\ contactResp' = 404
       ELSE IF Raises(contactRows[id], contact_type)
       THEN contactRows' = contactRows /\ contactResp' = 500
       ELSE /\ contactRows' = [contactRows EXCEPT ![id] = ApplyContact(@, contact_type, today)]
            /\ contactResp' = Answer(contactRows'[id])
    /\ UNCHANGED <<scrapeVars, streakVars, appVars, statsVars, settingsVars, limitVars>>

\* Contact requests under a date that moves forward.
ContactNext ==
    \/ CreateContactRow
    \/ \E id \in 1..(MaxContactRows + 1), f \in {"emails_sent", "meetings_held"} :
            \E v \in CounterValues : UpdateContactRow(id, f, v)
    \/ \E id \in 1..(MaxContactRows + 1), t \in ContactTypes : LogContact(id, t)
    \/ \E d \in Days : d > today /\ SetDay(d)

\* ---------------------------------------------------------- specifications
Init ==
    /\ ScrapeInit /\ StreakInit /\ AppInit /\ StatsInit /\ SettingsInit /\ LimitInit
    /\ ContactInit

\* The scrape pipeline, requests served one at a time.
Spec == Init /\ [][ScrapeNext]_vars

\* The streak counters under a changing date.
SpecStreak == Init /\ [][StreakNext]_vars

\* Concurrent create / update / delete requests on the application tables.
SpecApp == Init /\ [][AppNext]_vars

\* The application statistics over a changing table.
SpecJobStats == Init /\ [][JobStatsNext]_vars

\* The dealflow statistics over a changing pipeline.
SpecDealflowStats == Init /\ [][DealflowStatsNext]_vars

\* The dashboard, the two statistics and update_streak, one request at a time.
SpecDashboard == Init /\ [][DashboardNext]_vars

\* Concurrent requests that get or create the settings row.
SpecSettings == Init /\ [][SettingsNext]_vars

\* Requests to the scrape entry points, by their result counts.
SpecLimit == Init /\ [][LimitNext]_vars

\* The streaks as the dashboard reports them.
SpecStreakView == Init /\ [][StreakViewNext]_vars

\* The contact log of the dealflow applications.
SpecContact == Init /\ [][ContactNext]_vars

\* Two concurrent startup scrape runs.
SpecRace == Init /\ [][RaceNext]_vars

\* The same scrape run twice in sequence.
SpecTwice == Init /\ [][TwiceNext]_vars

\* ================================================== scrape pipeline claims
R == run[Main]

NCands == Len(R.cands)

InsertedBy(table, inv) == {i \in DOMAIN table : table[i].by = inv}

LogsOf(inv) == {i \in DOMAIN logs : logs[i].inv = inv}

SingleQueryDone == R.pc = "done" /\ R.variant \in LoggedVariants

\* Candidates whose natural key equals that of a record stored before the run.
PreExisting == {i \in 1..NCands : R.cands[i].key \in R.pre}

\* Candidates with a natural key that is stored before the run or carried by
\* an earlier candidate of the list that did not raise.
Repeated == {i \in 1..NCands :
                /\ R.cands[i].key # NoKey
                /\ \/ R.cands[i].key \in R.pre
                   \/ \E j \in 1..(i - 1) : j \notin R.excs /\ R.cands[j].key = R.cands[i].key}

CompletedLogRow(inv) ==
    /\ Cardinality(LogsOf(inv)) = 1
    /\ \A i \in LogsOf(inv) : logs[i].status = "completed"

\* C1 (as stated): a single-query run without per-candidate exception that
\* gets N candidates, M of them with a key stored before the run, returns
\* found = N, new = N - M, duplicates_removed = M, adds N - M rows and
\* leaves a completed log row.
C1_Original ==
    (SingleQueryDone /\ R.result.status = "completed" /\ R.excs = {}) =>
        /\ R.result.found = NCands
        /\ R.result.new = NCands - Cardinality(PreExisting)
        /\ R.result.duplicates_removed = Cardinality(PreExisting)
        /\ Cardinality(InsertedBy(TableOf(R.variant), R.inv)) = NCands - Cardinality(PreExisting)
        /\ CompletedLogRow(R.inv)

\* C1 (amended): the same with M counting the candidates whose natural key
\* is stored before the run or is carried by an earlier candidate of the
\* same list.
C1_ScrapeCounts ==
    (SingleQueryDone /\ R.result.status = "completed" /\ R.excs = {}) =>
        /\ R.result.found = NCands
        /\ R.result.new = NCands - Cardinality(Repeated)
        /\ R.result.duplicates_removed = Cardinality(Repeated)
        /\ Cardinality(InsertedBy(TableOf(R.variant), R.inv)) = NCands - Cardinality(Repeated)
        /\ CompletedLogRow(R.inv)

C1_Witness ==
    /\ SingleQueryDone /\ R.result.status = "completed" /\ R.excs = {}
    /\ NCands = 2 /\ Cardinality(PreExisting) = 1 /\ R.result.new = 1

\* C2: when the search call of a single-query run raises, exactly one log
\* row is persisted for the run, with status failed, the exception text as
\* error_message, duration_seconds >= 0 and found / new counts 0; the run
\* creates no Job or Startup row and re-raises instead of returning a summary.
C2_SearchFailure ==
    (SingleQueryDone /\ R.exc) =>
        /\ Cardinality(LogsOf(R.inv)) = 1
        /\ \A i \in LogsOf(R.inv) :
              /\ logs[i].status = "failed"
              /\ logs[i].error_message = Some("search error")
              /\ logs[i].duration_seconds # None
              /\ logs[i].duration_seconds[1] >= 0
              /\ logs[i].jobs_found = Some(0)
              /\ logs[i].jobs_new = Some(0)
        /\ InsertedBy(jobs, R.inv) = {}
        /\ InsertedBy(startups, R.inv) = {}
        /\ R.result.status = "raised"

C2_Witness == SingleQueryDone /\ R.exc /\ Cardinality(LogsOf(R.inv)) = 1

C9_OneLogPerInvocation ==
    R.pc = "done" => Cardinality(LogsOf(R.inv)) = 1

\* C10: the log of a run goes started -> completed or started -> failed and
\* nowhere else; completed_at and duration_seconds are assigned once, at
\* that transition, with duration_seconds = completed_at - started_at; a
\* persisted row is never updated.
C10_Step ==
    LET l == R.log
        m == run'[Main].log
        live == run'[Main].pc # "idle"
    IN
    /\ (R.pc = "idle" /\ live /\ run'[Main].variant \in LoggedVariants) =>
            m.status = "started" /\ m.completed_at = None /\ m.duration_seconds = None
    /\ (R.pc # "idle" /\ live /\ m.status # l.status) =>
            /\ l.status = "started"
            /\ m.status \in {"completed", "failed"}
            /\ m.completed_at = Some(now)
            /\ m.duration_seconds = Some(now - m.started_at)
            /\ m.started_at = l.started_at
    /\ (R.pc # "idle" /\ live /\ m.status = l.status) =>
            m.completed_at = l.completed_at /\ m.duration_seconds = l.duration_seconds
    /\ (R.pc \in {"persist", "done"} /\ R.variant \in LoggedVariants) =>
            R.finals = 1 /\ l.status \in {"completed", "failed"}
    /\ \A i \in DOMAIN logs :
            /\ i \in DOMAIN logs' /\ logs'[i] = logs[i]
            /\ logs[i].status \in {"completed", "failed"}
            /\ logs[i].duration_seconds = Some(logs[i].completed_at[1] - logs[i].started_at)

PairOf(table, t) ==
    LET row == GetOrCreate(table)[1] IN
    IF t = "job"
    THEN <<row.job_application_streak, row.job_application_streak_updated>>
    ELSE <<row.dealflow_sourcing_streak, row.dealflow_sourcing_streak_updated>>

\* C4: update_streak on day d maps the selected pair: unset -> (1, d);
\* last_updated = d -> unchanged; last_updated = d - 1 -> (counter + 1, d);
\* any other date, earlier or later -> (1, d).
C4_Step ==
    \A t \in ActivityTypes :
        UpdateStreak(t) =>
            LET pre == PairOf(user_settings, t)
                post == PairOf(user_settings', t)
            IN  /\ user_settings' # <<>>
                /\ pre[2] = None => post = <<1, Some(today)>>
                /\ pre[2] = Some(today) => post = pre
                /\ pre[2] = Some(today - 1) => post = <<pre[1] + 1, Some(today)>>
                /\ (pre[2] # None /\ pre[2] # Some(today) /\ pre[2] # Some(today - 1)) =>
                        post = <<1, Some(today)>>

C4_StreakTransition == [][C4_Step]_vars

C4_Witness ==
    /\ PairOf(user_settings, "job") = <<1, Some(today)>>
    /\ PairOf(user_settings, "dealflow") = <<3, Some(today)>>
    /\ ~history["job"].mono

\* C5: a further update_streak call of a type on a day on which that type
\* was already called leaves its counter and date as the first call of the
\* day left them.
C5_Step ==
    \A t \in ActivityTypes :
        (UpdateStreak(t) /\ callsToday[t] >= 1) =>
            PairOf(user_settings', t) = PairOf(user_settings, t)

C5_SameDayIdempotent == [][C5_Step]_vars

C5_Witness ==
    /\ callsToday["job"] = 2
    /\ PairOf(user_settings, "job") = <<2, Some(today)>>

\* The number of consecutive days ending at d that are all in the set.
RunLength(days, d) ==
    Cardinality({k \in 0..d : \A j \in 0..k : (d - j) \in days})

\* C6: from fresh settings, after update_streak calls of one type on
\* non-decreasing dates, the counter of the type is the number of
\* consecutive days, ending at the day of the latest call, with a call.
C6_ConsecutiveDays ==
    \A t \in ActivityTypes :
        (history[t].mono /\ history[t].last # None) =>
            PairOf(user_settings, t)[1] = RunLength(history[t].days, history[t].last[1])

C6_Witness ==
    /\ history["job"].mono
    /\ history["job"].days = {0, 1, 3, 4}
    /\ PairOf(user_settings, "job") = <<2, Some(4)>>

\* ====================================================== application claims
\* C7: in every reachable state there is at most one Application per Job
\* and at most one DealflowApplication per Startup.
C7_OnePerParent ==
    \A k \in Kinds, p \in Parents : Cardinality(ByParent(applications[k], p)) <= 1

\* C8: a create request whose existence check finds no row for the parent
\* goes on to insert, answers 201 and adds exactly one row, for that
\* parent; one whose check finds a row answers 409 and changes nothing.
C8_Step ==
    \A q \in Reqs :
        LET table == applications[req[q].kind]
            rows == ByParent(table, req[q].parent)
        IN
        /\ (CheckExisting(q) /\ rows = {}) => req'[q].pc = "insert"
        /\ (CheckExisting(q) /\ Cardinality(rows) = 1) =>
                /\ req'[q].pc = "done" /\ req'[q].resp = 409
                /\ applications' = applications
        /\ CommitCreate(q) =>
                /\ req'[q].resp = 201
                /\ Len(applications'[req[q].kind]) = Len(table) + 1
                /\ SubSeq(applications'[req[q].kind], 1, Len(table)) = table
                /\ applications'[req[q].kind][Len(table) + 1].parent = req[q].parent
                /\ \A k \in Kinds \ {req[q].kind} : applications'[k] = applications[k]

C8_CreateOrConflict == [][C8_Step]_vars

C8_Witness ==
    \E q \in Reqs :
        /\ req[q].resp = 409
        /\ Cardinality(ByParent(applications[req[q].kind], req[q].parent)) = 1
        /\ requests = 2

\* =========================================== scrape pipeline claims, cont.
\* The rows of a table that were there are still there, unchanged.
Preserved(old, new) ==
    \A i \in DOMAIN old : i \in DOMAIN new /\ new[i] = old[i]

\* C11: a scrape run never modifies or deletes a Job or Startup row that
\* is in storage (a candidate matching one is only skipped), and the
\* updated count of the summary and of the log row is always 0.
C11_Step ==
    /\ R.pc # "idle" => Preserved(jobs, jobs') /\ Preserved(startups, startups')
    /\ (CheckCandidate(Main) /\ R.cands[R.i].key \in KeysOf(TableOf(R.variant))
            /\ Queries(EntityOf(R.variant), R.cands[R.i])) =>
            /\ jobs' = jobs /\ startups' = startups
            /\ run'[Main].skipped = R.skipped + 1
            /\ run'[Main].new = R.new
    /\ (R.pc = "done" /\ R.result.status = "completed") => R.result.updated = 0
    /\ \A i \in DOMAIN logs : logs[i].jobs_updated = Some(0)

C11_NoUpdate == [][C11_Step]_vars

C11_Witness ==
    /\ SingleQueryDone /\ R.result.status = "completed"
    /\ R.result.duplicates_removed = 1 /\ R.result.new = 1
    /\ InsertedBy(TableOf(R.variant), 0) # {}
    /\ \E i \in LogsOf(R.inv) : logs[i].jobs_new = Some(1)

\* C12: no state shows rows inserted by a logged run without the
\* completed log row of that run.
C12_RowsWithLog ==
    (R.pc # "idle" /\ R.variant \in LoggedVariants) =>
        (InsertedBy(TableOf(R.variant), R.inv) # {} => CompletedLogRow(R.inv))

\* The candidates handled so far that were inserted, in list order.
RECURSIVE InsertedKeys(_, _)
InsertedKeys(rec, n) ==
    IF n = 0 THEN <<>>
    ELSE IF n \in rec.excs \cup Repeated
         THEN InsertedKeys(rec, n - 1)
         ELSE Append(InsertedKeys(rec, n - 1), rec.cands[n].key)

\* The keys of the rows of a table inserted by an invocation, in row order.
RECURSIVE RowKeysBy(_, _)
RowKeysBy(table, inv) ==
    IF table = <<>> THEN <<>>
    ELSE LET front == RowKeysBy(SubSeq(table, 1, Len(table) - 1), inv)
             last == table[Len(table)]
         IN  IF last.by = inv THEN Append(front, last.key) ELSE front

\* C20: in the accelerator and sector variants every search call has
\* returned before the first existence check or insert, each returned list
\* is appended to the candidates, which are handled in that order, and a
\* raising search call makes the operation raise with no row inserted.
C20_Step ==
    (R.pc # "idle" /\ R.variant \in BatchVariants) =>
        /\ (R.pc = "search" /\ run'[Main] # R /\ ~run'[Main].exc) =>
                /\ run'[Main].batches = R.batches - 1
                /\ \E cs \in CandLists :
                      /\ run'[Main].cands = R.cands \o cs
                      /\ SubSeq(run'[Main].cands, 1, NCands) = R.cands
                      /\ SubSeq(run'[Main].cands, NCands + 1, NCands + Len(cs)) = cs
        /\ R.pc \in {"check", "insert", "commit"} => R.batches = 0
        /\ R.batches > 0 => InsertedBy(startups, R.inv) = {} /\ R.i = 1
        /\ R.pc \in {"check", "insert"} =>
                RowKeysBy(startups, R.inv) = InsertedKeys(R, R.i - 1)
        /\ (R.pc = "done" /\ ~R.exc) =>
                RowKeysBy(startups, R.inv) = InsertedKeys(R, NCands)
        /\ R.exc => /\ InsertedBy(startups, R.inv) = {}
                    /\ R.pc = "done" /\ R.result.status = "raised"

C20_BatchOrder == [][C20_Step]_vars

C20_Witness ==
    /\ R.pc = "done" /\ R.variant \in BatchVariants /\ ~R.exc
    /\ NCands = 2 /\ R.cands[1].key = "b" /\ R.cands[2].key = "a"
    /\ RowKeysBy(startups, R.inv) = <<"b", "a">>

\* ----------------------------------------------------- statistics: claims
\* The number of rows of a table in one of the statuses.
StatusCount(table, statuses) ==
    CountRows(table, {e \in DOMAIN table : e.status \in statuses})

\* applied + interviewing + rejected + offer + accepted, from the rows.
AppliedRows ==
    StatusCount(appRows, {"applied", "interviewing", "rejected", "offer", "accepted"})

\* The three rates of an application-stats response, in thousandths.
RatesOf(r) == {r.response_rate, r.interview_rate, r.offer_rate}

\* C13 as stated: get_application_stats returns response_rate,
\* interview_rate and offer_rate each within [0,1], and each is 0 exactly
\* when applied_count is 0.
C13_Original ==
    response.op = "application_stats" =>
        \A r \in RatesOf(response) : r \in 0..1000 /\ (r = 0 <=> AppliedRows = 0)

\* C13, amended: get_application_stats returns response_rate,
\* interview_rate and offer_rate each within [0,1], and each is 0 whenever
\* applied_count is 0 (a rate may also be 0 when applied_count is positive).
C13_Rates ==
    response.op = "application_stats" =>
        \A r \in RatesOf(response) : r \in 0..1000 /\ (AppliedRows = 0 => r = 0)

C13_Witness ==
    /\ response.op = "application_stats"
    /\ response.total = 2
    /\ AppliedRows = 0
    /\ RatesOf(response) = {0}

\* C14: recent_applications equals the number of applications whose
\* applied_date lies in today-6 .. today; one dated today-7 or earlier, or
\* after today, is not counted.
C14_RecentWindow ==
    response.op = "application_stats" =>
        response.recent_applications =
            CountRows(appRows, {e \in DOMAIN appRows :
                /\ e.applied_date # None
                /\ e.applied_date[1] >= today - 6
                /\ e.applied_date[1] <= today})

\* out thousandths is num / den rounded to three decimals.
Nearest(out, num, den) ==
    LET diff == 1000 * num - out * den
    IN  2 * (IF diff < 0 THEN 0 - diff ELSE diff) <= den

\* A rate that is num / den rounded, and 0 when den is 0.
RateIs(out, num, den) == IF den = 0 THEN out = 0 ELSE Nearest(out, num, den)

\* C15: get_dealflow_stats returns sourced_to_contacted = contacted-or-later
\* / total, contacted_to_meeting = meeting-or-later / contacted-or-later,
\* meeting_to_shared = shared-or-later / meeting-or-later, each rounded to 3
\* decimals and each 0 when its denominator is 0.
C15_Conversion ==
    response.op = "dealflow_stats" =>
        LET total == BagCardinality(dealRows)
            contacted == StatusCount(dealRows,
                {"contacted", "meeting", "shared", "progressing", "closed"})
            meeting == StatusCount(dealRows, {"meeting", "shared", "progressing", "closed"})
            shared == StatusCount(dealRows, {"shared", "progressing", "closed"})
            rates == response.conversion_rates
        IN  /\ RateIs(rates.sourced_to_contacted, contacted, total)
            /\ RateIs(rates.contacted_to_meeting, meeting, contacted)
            /\ RateIs(rates.meeting_to_shared, shared, meeting)

\* {sourced: 5, contacted: 3, meeting: 2, closed: 1} gives 0.545, 0.5, 0.333.
C15_Witness ==
    /\ response.op = "dealflow_stats"
    /\ response.pipeline_breakdown =
            [s \in {"sourced", "contacted", "meeting", "closed"} |->
                IF s = "sourced" THEN 5 ELSE IF s = "contacted" THEN 3
                ELSE IF s = "meeting" THEN 2 ELSE 1]
    /\ response.conversion_rates =
            [sourced_to_contacted |-> 545, contacted_to_meeting |-> 500,
             meeting_to_shared |-> 333]

\* One weekly_goal block: progress is min(current / target, 1) rounded,
\* within [0,1], and 0 for a target of 0.
GoalOk(g) ==
    /\ g.progress \in 0..1000
    /\ g.target = 0 => g.progress = 0
    /\ g.target > 0 =>
        Nearest(g.progress, IF g.current < g.target THEN g.current ELSE g.target, g.target)

\* C16: in the dashboard, for each domain weekly_goal.progress =
\* min(current / target, 1.0) rounded to 3 decimals, always within [0,1],
\* and a target of 0 yields progress 0.
C16_Progress ==
    response.op = "dashboard" =>
        GoalOk(response.jobs.weekly_goal) /\ GoalOk(response.dealflow.weekly_goal)

\* Target 10 and current 12 give 1.0; a target of 0 with activity gives 0.
C16_Witness ==
    /\ response.op = "dashboard"
    /\ response.jobs.weekly_goal = [target |-> 10, current |-> 12, progress |-> 1000]
    /\ response.dealflow.weekly_goal = [target |-> 0, current |-> 3, progress |-> 0]

\* The tables.
Storage == <<jobs, startups, logs, applications, appRows, dealRows, user_settings>>

C17_Step ==
    (GetApplicationStats \/ GetDealflowStats \/ GetDashboardStats) => Storage' = Storage

\* C17: get_application_stats, get_dealflow_stats and get_dashboard_stats
\* leave storage unchanged in every state, the one without a settings row
\* included.
C17_ReadsOnly == [][C17_Step]_vars

\* C18: at every scrape entry point, asking for more than 100 results is not
\* an error: each search is called with 100 and the run has at most 100
\* candidates.
C18_SilentCap ==
    (entry.point # "none" /\ Requested(entry.point, entry.n, entry.k) > 100) =>
        /\ entry.status = 200
        /\ \A i \in DOMAIN entry.calls : entry.calls[i] = 100
        /\ entry.candidates <= 100

\* C19: storage holds at most one UserSettings row, also when requests that
\* get or create it interleave.
C19_Singleton == Len(user_settings) <= 1

\* The rows of the table that are not in status saved.
NotSaved(table) ==
    [e \in {x \in DOMAIN table : x.status # "saved"} |-> table[e]]

\* C21: applications in status saved affect no ratio: the three rates of
\* get_application_stats are those of the same table with every saved
\* application removed, whatever the number of saved applications.
C21_SavedIgnored ==
    response.op = "application_stats" =>
        LET others == ApplicationStats(NotSaved(appRows), today) IN
        /\ response.response_rate = others.response_rate
        /\ response.interview_rate = others.interview_rate
        /\ response.offer_rate = others.offer_rate

C21_Witness ==
    /\ response.op = "application_stats"
    /\ Get(response.by_status, "saved") = 2
    /\ AppliedRows = 1
    /\ response.response_rate = 1000

\* An invocation that returned its summary.
Returned == R.pc = "done" /\ R.result.status = "completed"

\* C22: every candidate is counted exactly once: a run of any variant that
\* returns a summary has found = new + duplicates_removed, found being the
\* number of candidates, and has added exactly new entity rows.
C22_CountedOnce ==
    Returned =>
        /\ R.result.found = NCands
        /\ R.result.found = R.result.new + R.result.duplicates_removed
        /\ Cardinality(InsertedBy(TableOf(R.variant), R.inv)) = R.result.new

\* A run with a candidate that raised, a candidate without natural key and
\* an inserted row.
C22_Witness ==
    /\ Returned
    /\ NCands = 2
    /\ R.excs # {}
    /\ \E i \in 1..NCands : R.cands[i].key = NoKey
    /\ R.result.new = 1
    /\ R.result.duplicates_removed = 1

\* The candidate the loop is at, and the candidates before it with its key.
Cur == R.cands[R.i]

Earlier == {j \in 1..(R.i - 1) : R.cands[j].key = Cur.key}

\* The candidate at hand carries a natural key that was not stored before
\* the run and that another candidate of the list carries too.
SharedNewKey ==
    /\ Cur.key # NoKey
    /\ Cur.key \notin R.pre
    /\ \E j \in 1..NCands : j # R.i /\ R.cands[j].key = Cur.key

\* The rows the run added for one key.
RowsFor(key) ==
    {x \in InsertedBy(TableOf(R.variant), R.inv) : TableOf(R.variant)[x].key = key}

\* The step leaves the candidate out: counted as skipped, nothing stored.
SkipsCur ==
    /\ run'[Main].skipped = R.skipped + 1
    /\ run'[Main].new = R.new
    /\ run'[Main].i = R.i + 1
    /\ jobs' = jobs /\ startups' = startups

\* The step stores the candidate: one more row with its key, counted as new.
StoresCur ==
    /\ run'[Main].new = R.new + 1
    /\ run'[Main].skipped = R.skipped
    /\ run'[Main].i = R.i + 1
    /\ Len(TableOf(R.variant)') = Len(TableOf(R.variant)) + 1
    /\ TableOf(R.variant)'[Len(TableOf(R.variant)) + 1].key = Cur.key

C23_OriginalStep ==
    /\ (R.pc = "check" /\ run'[Main] # R /\ SharedNewKey /\ Earlier # {}) => SkipsCur
    /\ (R.pc = "insert" /\ run'[Main] # R /\ SharedNewKey) => StoresCur
    /\ R.pc # "idle" => \A k \in Keys : Cardinality(RowsFor(k)) <= 1

\* C23 as stated: of several candidates of a run with the same non-empty
\* natural key not yet in storage, only the first in input order is
\* inserted and each later one is counted in duplicates_removed; a run
\* inserts at most one row per natural key.
C23_Original == [][C23_OriginalStep]_vars

C23_Step ==
    /\ (R.pc = "check" /\ run'[Main] # R /\ SharedNewKey) =>
            IF Earlier \subseteq R.excs
            THEN IF Validates(EntityOf(R.variant), Cur)
                 THEN run'[Main].pc = "insert"
                 ELSE SkipsCur /\ R.i \in run'[Main].excs
            ELSE SkipsCur
    /\ (R.pc = "insert" /\ run'[Main] # R /\ SharedNewKey) => StoresCur
    /\ R.pc # "idle" => \A k \in Keys : Cardinality(RowsFor(k)) <= 1

\* C23, amended: of several candidates of a run with the same non-empty
\* natural key not yet in storage, only the first in input order whose
\* construction does not raise is inserted, and every other one is counted
\* in duplicates_removed; a run inserts at most one row per natural key.
C23_IntraRunDedup == [][C23_Step]_vars

C23_Witness ==
    /\ Returned
    /\ NCands = 2
    /\ R.cands[1].key = "a" /\ R.cands[2].key = "a"
    /\ "a" \notin R.pre
    /\ R.excs = {}
    /\ Cardinality(RowsFor("a")) = 1
    /\ R.result.duplicates_removed = 1

\* ------------------------------------------------------------------ C24
\* Both interleaved startup runs have ended.
BothEnded == \A r \in Runs : run[r].pc = "done" /\ run[r].variant = "dealflow"

\* Both runs received a candidate with website key that was not stored
\* when they started.
BothReceived(key) ==
    \A r \in Runs :
        /\ key \notin run[r].pre
        /\ \E j \in DOMAIN run[r].cands : run[r].cands[j].key = key

\* The Startup rows with one website that one invocation added.
AddedFor(inv, key) == {x \in InsertedBy(startups, inv) : startups[x].key = key}

\* C24 as stated: when two startup scrape runs interleave and both receive
\* a candidate with the same website not yet in storage, at most one
\* Startup row with that website exists after both runs end.
C24_Original ==
    \A k \in Keys :
        (BothEnded /\ BothReceived(k)) => Cardinality(Matching(startups, k)) <= 1

\* C24, amended: each of the two interleaved runs adds at most one Startup
\* row with that website, so that at most two rows with it, one per run,
\* exist at any time and after both runs end.
C24_OnePerRun ==
    \A k \in Keys :
        /\ \A inv \in 1..2 : Cardinality(AddedFor(inv, k)) <= 1
        /\ Cardinality(Matching(startups, k)) <= 2
        /\ (BothEnded /\ BothReceived(k)) =>
                Matching(startups, k) = AddedFor(1, k) \cup AddedFor(2, k)

C24_Witness ==
    /\ BothEnded
    /\ BothReceived("a")
    /\ Cardinality(AddedFor(1, "a")) = 1
    /\ Cardinality(AddedFor(2, "a")) = 1
    /\ Cardinality(Matching(startups, "a")) = 2

\* ------------------------------------------------------------------ C25
R2 == run[Again]

\* The same run was made twice in sequence and the search returned the
\* same candidate list both times; both returned their summary.
RanTwice ==
    /\ Returned
    /\ R2.pc = "done" /\ R2.result.status = "completed"
    /\ R2.variant = R.variant
    /\ R2.cands = R.cands

\* The valid startup candidates without website.
Unkeyed(rec) ==
    {j \in DOMAIN rec.cands :
        /\ rec.cands[j].key = NoKey
        /\ Validates(EntityOf(rec.variant), rec.cands[j])}

\* C25: when the same run is made twice in sequence with the same candidate
\* list and every candidate has a natural key, the second run adds no
\* entity row and its summary has new = 0 and duplicates_removed = found;
\* a startup candidate without website is inserted again by the second run.
C25_Idempotent ==
    RanTwice =>
        /\ (\A j \in DOMAIN R2.cands : R2.cands[j].key # NoKey) =>
                /\ InsertedBy(TableOf(R2.variant), R2.inv) = {}
                /\ R2.result.new = 0
                /\ R2.result.duplicates_removed = R2.result.found
                /\ R2.result.found = NCands
        /\ EntityOf(R2.variant) = "startup" =>
                /\ Cardinality(InsertedBy(startups, R2.inv)) = Cardinality(Unkeyed(R2))
                /\ R2.result.new = Cardinality(Unkeyed(R2))

\* A second run over two keyed candidates that the first run inserted.
C25_Witness ==
    /\ RanTwice
    /\ NCands = 2
    /\ \A j \in DOMAIN R2.cands : R2.cands[j].key # NoKey
    /\ R.result.new = 2
    /\ R2.result.new = 0
    /\ R2.result.duplicates_removed = 2

\* ------------------------------------------------------------------ C26
\* The two weekly goals of a settings row.
GoalsOf(row) == <<row.weekly_job_application_goal, row.weekly_dealflow_sourcing_goal>>

\* C26: update_streak changes only the pair it selects: a call for job
\* leaves the dealflow counter and date and both weekly goals as they were,
\* a call for dealflow leaves the job pair and the goals, and a call with
\* any other activity type changes no counter and no date.
C26_Step ==
    \A a \in ActivityArgs :
        UpdateStreak(a) =>
            /\ Len(user_settings') = 1
            /\ GoalsOf(user_settings'[1]) = GoalsOf(GetOrCreate(user_settings)[1])
            /\ a # "job" =>
                    PairOf(user_settings', "job") = PairOf(user_settings, "job")
            /\ a # "dealflow" =>
                    PairOf(user_settings', "dealflow") = PairOf(user_settings, "dealflow")

C26_OnlySelectedPair == [][C26_Step]_vars

\* Both types were called, on different days, and each pair kept its own
\* value.
C26_Witness ==
    /\ PairOf(user_settings, "job") = <<2, Some(1)>>
    /\ PairOf(user_settings, "dealflow") = <<1, Some(3)>>
    /\ today = 3

\* ------------------------------------------------------------------ C27
\* The counter is 0 exactly when the date is unset, and at least 1 otherwise.
C27_Inv ==
    \A t \in ActivityTypes :
        LET p == PairOf(user_settings, t) IN
        /\ p[1] = 0 <=> p[2] = None
        /\ p[2] # None => p[1] >= 1

\* One call leaves a counter, raises it by exactly 1, or sets it to 1.
C27_Step ==
    \A a \in ActivityArgs, t \in ActivityTypes :
        UpdateStreak(a) =>
            LET pre == PairOf(user_settings, t)[1]
                post == PairOf(user_settings', t)[1]
            IN  post = pre \/ post = pre + 1 \/ post = 1

\* C27: in every state reached from fresh settings by update_streak calls,
\* each counter is 0 exactly when its last_updated date is unset and is at
\* least 1 otherwise, and a single call leaves a counter unchanged, raises
\* it by exactly 1, or sets it to 1.
C27_CounterAndDate == []C27_Inv /\ [][C27_Step]_vars

\* A counter was raised to 3 and then set back to 1; the other is untouched.
C27_Witness ==
    /\ history["job"].days = {0, 1, 2, 4}
    /\ history["job"].mono
    /\ PairOf(user_settings, "job") = <<1, Some(4)>>
    /\ PairOf(user_settings, "dealflow") = <<0, None>>

\* ------------------------------------------------------------------ C28
\* A run between its first await and the await that persists its log.
InProgress(rec) == rec.pc \in {"search", "check", "insert", "commit", "persist"}

\* C28: no ScrapingLog row with status started is ever in storage: every
\* stored row is completed or failed, a run in progress has no row, and the
\* log of a run is stored at most once.
C28_NoStartedRow ==
    /\ \A i \in DOMAIN logs : logs[i].status \in {"completed", "failed"}
    /\ \A r \in Runs : InProgress(run[r]) => LogsOf(run[r].inv) = {}
    /\ \A inv \in 1..invocations : Cardinality(LogsOf(inv)) <= 1

\* A single-query run that inserted a row and ended: its log is in storage
\* once, with status completed.
C28_Witness ==
    /\ R.pc = "done"
    /\ R.variant \in LoggedVariants
    /\ R.result.status = "completed"
    /\ R.result.new = 1
    /\ Cardinality(LogsOf(R.inv)) = 1
    /\ \A i \in LogsOf(R.inv) : logs[i].status = "completed"

\* ------------------------------------------------------------------ C29
\* The counter of an activity type as storage holds it (0 when the row is
\* still to be created).
StoredStreak(t) ==
    IF user_settings = <<>> THEN 0
    ELSE IF t = "job" THEN user_settings[1].job_application_streak
    ELSE user_settings[1].dealflow_sourcing_streak

\* C29: the dashboard reports each domain's current_streak as the stored
\* counter whatever the distance between its last_updated date and today,
\* reading neither resets nor changes a counter or date, and
\* combined.overall_streak is the larger of the two reported values.
C29_Step ==
    GetDashboardStats =>
        /\ response'.jobs.current_streak = StoredStreak("job")
        /\ response'.dealflow.current_streak = StoredStreak("dealflow")
        /\ response'.combined.overall_streak >= response'.jobs.current_streak
        /\ response'.combined.overall_streak >= response'.dealflow.current_streak
        /\ response'.combined.overall_streak
                \in {response'.jobs.current_streak, response'.dealflow.current_streak}
        /\ \A t \in ActivityTypes : PairOf(user_settings', t) = PairOf(user_settings, t)

C29_StoredStreak == [][C29_Step]_vars

\* A job streak of 2 whose last activity was three days ago, read today.
C29_Witness ==
    /\ response.op = "dashboard"
    /\ today = 4
    /\ PairOf(user_settings, "job") = <<2, Some(1)>>
    /\ PairOf(user_settings, "dealflow") = <<1, Some(3)>>
    /\ response.jobs.current_streak = 2
    /\ response.dealflow.current_streak = 1
    /\ response.combined.overall_streak = 2

\* ------------------------------------------------------------------ C30
\* The counter raised by exactly 1.
RaisedByOne(pre, post) == pre # None /\ post = Some(pre[1] + 1)

\* The effect of one log_contact call on an existing row, as stated.
Logged(pre, post, contact_type) ==
    /\ IF contact_type = "email"
       THEN /\ RaisedByOne(pre.emails_sent, post.emails_sent)
            /\ post.meetings_held = pre.meetings_held
       ELSE /\ RaisedByOne(pre.meetings_held, post.meetings_held)
            /\ post.emails_sent = pre.emails_sent
    /\ post.last_contact_date = Some(today)
    /\ post.first_contact_date =
            IF pre.first_contact_date = None THEN Some(today) ELSE pre.first_contact_date

\* The dates of a row: first is set once last is, and is not after it.
DatesOrdered(row) ==
    /\ row.first_contact_date = None <=> row.last_contact_date = None
    /\ row.first_contact_date # None =>
            row.first_contact_date[1] <= row.last_contact_date[1]

C30_Step ==
    /\ \A id \in 1..(MaxContactRows + 1), t \in {"email", "meeting"} :
            LogContact(id, t) =>
                IF id \in DOMAIN contactRows
                THEN Logged(contactRows[id], contactRows'[id], t)
                ELSE contactRows' = contactRows
    /\ \A id \in DOMAIN contactRows :
            /\ contactRows[id].first_contact_date # None =>
                    contactRows'[id].first_contact_date = contactRows[id].first_contact_date
            /\ DatesOrdered(contactRows'[id])

\* C30: for an existing dealflow application each log_contact call raises
\* exactly one of emails_sent / meetings_held by 1 and leaves the other,
\* sets last_contact_date to today and first_contact_date only if it was
\* unset; under non-decreasing dates first_contact_date never changes once
\* set and is not after last_contact_date; a call for a nonexistent id
\* changes nothing.
C30_LogContact == [][C30_Step]_vars

====
